---------------------------- MODULE Spec2Model ----------------------------
(***************************************************************************)
(* The "Global CO2 Budget" notebook: seven code cells that convert units,  *)
(* estimate the mass of the atmosphere, and solve one material balance.    *)
(*                                                                         *)
(* Python floats are IEEE-754 binary64 values.  They are modelled exactly  *)
(* (53-bit significand, round to nearest, ties to even) on top of natural  *)
(* numbers of arbitrary size, because the intermediate values (5.27e18,    *)
(* 2^53 significands) do not fit the integers of the model checker.        *)
(***************************************************************************)
EXTENDS Integers, Sequences, FiniteSets, TLC

(***************************************************************************)
(* Natural numbers of arbitrary size: little-endian sequences of limbs in  *)
(* radix Base, without leading zero limbs; zero is the empty sequence.     *)
(* The arithmetic is written as functions, which take their arguments by   *)
(* value.                                                                  *)
(***************************************************************************)
LimbBits == 15

Base == 2^LimbBits

BigNat == Seq(0..(Base - 1))

Limb(a, i) == IF 1 <= i /\ i <= Len(a) THEN a[i] ELSE 0

MaxOf(x, y) == IF x >= y THEN x ELSE y

MinOf(x, y) == IF x <= y THEN x ELSE y

\* a without its leading zero limbs
BTrim[a \in BigNat] ==
    LET nz == {i \in 1..Len(a) : a[i] # 0}
    IN  IF nz = {} THEN <<>> ELSE SubSeq(a, 1, CHOOSE m \in nz : \A k \in nz : k <= m)

\* for 0 <= n < 2^31
BFromInt[n \in Nat] == BTrim[<<n % Base, (n \div Base) % Base, n \div (Base * Base)>>]

\* for a < 2^31
BToInt[a \in BigNat] == Limb(a, 1) + Base * Limb(a, 2) + Base * Base * Limb(a, 3)

\* -1, 0 or 1 as a < b, a = b or a > b
BCmp[a \in BigNat, b \in BigNat] ==
    IF Len(a) > Len(b) THEN 1
    ELSE IF Len(a) < Len(b) THEN -1
    ELSE IF \A i \in 1..Len(a) : a[i] = b[i] THEN 0
    ELSE IF \E i \in 1..Len(a) : a[i] > b[i] /\ \A k \in (i + 1)..Len(a) : a[k] = b[k] THEN 1
    ELSE -1

\* the carry into limb i of a + b: generated at some limb below, propagated since
AddCarry(a, b, i) ==
    \E j \in 1..(i - 1) :
        /\ Limb(a, j) + Limb(b, j) >= Base
        /\ \A k \in (j + 1)..(i - 1) : Limb(a, k) + Limb(b, k) = Base - 1

BAdd[a \in BigNat, b \in BigNat] ==
    BTrim[[i \in 1..(MaxOf(Len(a), Len(b)) + 1) |->
              (Limb(a, i) + Limb(b, i) + (IF AddCarry(a, b, i) THEN 1 ELSE 0)) % Base]]

\* the borrow from limb i of a - b
SubBorrow(a, b, i) ==
    \E j \in 1..(i - 1) :
        /\ Limb(a, j) < Limb(b, j)
        /\ \A k \in (j + 1)..(i - 1) : Limb(a, k) = Limb(b, k)

\* a - b, for a >= b
BSub[a \in BigNat, b \in BigNat] ==
    BTrim[[i \in 1..Len(a) |->
              (Limb(a, i) - Limb(b, i) - (IF SubBorrow(a, b, i) THEN 1 ELSE 0) + Base) % Base]]

\* a * Base^n
BShiftLimbs[a \in BigNat, n \in Nat] == IF a = <<>> THEN a ELSE [i \in 1..n |-> 0] \o a

\* a * k + c, for 0 <= k <= Base and 0 <= c < 2^31
BMulSmall[a \in BigNat, k \in Nat, c \in Nat] ==
    BAdd[BAdd[[i \in 1..Len(a) |-> (a[i] * k) % Base],
              BShiftLimbs[BTrim[[i \in 1..Len(a) |-> (a[i] * k) \div Base]], 1]],
         BFromInt[c]]

\* the limbs i.. of a, times b
BMulFrom[a \in BigNat, b \in BigNat, i \in Nat] ==
    IF i > Len(a) THEN <<>>
    ELSE BAdd[BShiftLimbs[BMulSmall[b, a[i], 0], i - 1], BMulFrom[a, b, i + 1]]

BMul[a \in BigNat, b \in BigNat] ==
    IF Len(a) <= Len(b) THEN BMulFrom[a, b, 1] ELSE BMulFrom[b, a, 1]

\* a * 2^k
BShl[a \in BigNat, k \in Nat] ==
    BTrim[[i \in 1..(Len(a) + (k \div LimbBits) + 1) |->
              ((Limb(a, i - (k \div LimbBits)) * 2^(k % LimbBits)) % Base)
              + (Limb(a, i - (k \div LimbBits) - 1) \div 2^(LimbBits - (k % LimbBits)))]]

\* floor(a / 2^k)
BShr[a \in BigNat, k \in Nat] ==
    BTrim[[i \in 1..MaxOf(0, Len(a) - (k \div LimbBits)) |->
              (Limb(a, i + (k \div LimbBits)) \div 2^(k % LimbBits))
              + ((Limb(a, i + (k \div LimbBits) + 1) % 2^(k % LimbBits))
                 * 2^(LimbBits - (k % LimbBits)))]]

\* number of binary digits of n, for 0 <= n < Base
IntBitLen[n \in Nat] == CHOOSE k \in 0..LimbBits : n < 2^k /\ (k = 0 \/ n >= 2^(k - 1))

\* number of binary digits of a (0 for zero)
BBitLen[a \in BigNat] ==
    IF a = <<>> THEN 0 ELSE (Len(a) - 1) * LimbBits + IntBitLen[a[Len(a)]]

BIsOdd(a) == a # <<>> /\ a[1] % 2 = 1

BPow10[k \in Nat] ==
    IF k <= 9 THEN BFromInt[10^k] ELSE BMul[BFromInt[10^9], BPow10[k - 9]]

\* the number written with the decimal digits ds[lo..hi], at most 9 of them
DigitsValue[ds \in Seq(0..9), lo \in Nat, hi \in Nat] ==
    IF lo > hi THEN 0
    ELSE IF lo = hi THEN ds[lo]
    ELSE DigitsValue[ds, lo, (lo + hi) \div 2] * 10^(hi - (lo + hi) \div 2)
         + DigitsValue[ds, (lo + hi) \div 2 + 1, hi]

\* the natural number written with the decimal digits ds (most significant first)
BFromDigits[ds \in Seq(0..9)] ==
    IF Len(ds) <= 9 THEN BFromInt[DigitsValue[ds, 1, Len(ds)]]
    ELSE BAdd[BMul[BFromDigits[SubSeq(ds, 1, Len(ds) - 9)], BPow10[9]],
              BFromInt[DigitsValue[ds, Len(ds) - 8, Len(ds)]]]

(***************************************************************************)
(* Long division by limbs.  The divisor d is scaled so that its top limb   *)
(* is at least Base/2; a quotient limb estimated from the two top limbs of *)
(* the running remainder is then at most 2 too large.                      *)
(***************************************************************************)
\* a division in progress: the running remainder r, the quotient limbs q found so
\* far, and the index i of the next limb of the dividend to bring down
DivState == [r : BigNat, q : BigNat, i : Nat]

\* a quotient and a remainder
QuotRem == [q : BigNat, r : BigNat]

\* the largest of est, est - 1, est - 2 whose product with d is at most rem
FitLimb[rem \in BigNat, d \in BigNat, est \in Nat] ==
    IF BCmp[BMulSmall[d, est, 0], rem] <= 0 THEN est
    ELSE IF BCmp[BMulSmall[d, est - 1, 0], rem] <= 0 THEN est - 1
    ELSE est - 2

\* the quotient limb for the running remainder rem < d * Base
QuotientLimb[rem \in BigNat, d \in BigNat] ==
    FitLimb[rem, d,
            MinOf(Base - 1, (Limb(rem, Len(d) + 1) * Base + Limb(rem, Len(d))) \div d[Len(d)])]

\* the remainder rem leaves the quotient limb ql
Reduce[rem \in BigNat, d \in BigNat, ql \in Nat, q \in BigNat, i \in Nat] ==
    [r |-> BSub[rem, BMulSmall[d, ql, 0]], q |-> <<ql>> \o q, i |-> i - 1]

\* bring down limb st.i of n and divide
DivStep[st \in DivState, n \in BigNat, d \in BigNat] ==
    Reduce[BTrim[<<n[st.i]>> \o st.r], d, QuotientLimb[BTrim[<<n[st.i]>> \o st.r], d], st.q, st.i]

DivLoop[st \in DivState, n \in BigNat, d \in BigNat] ==
    IF st.i = 0 THEN st ELSE DivLoop[DivStep[st, n, d], n, d]

\* n / d for n >= d, where the top limb of d is at least Base/2
DivNormal[n \in BigNat, d \in BigNat] ==
    DivLoop[[r |-> SubSeq(n, Len(n) - Len(d) + 2, Len(n)), q |-> <<>>, i |-> Len(n) - Len(d) + 1],
            n, d]

\* the result of a division scaled by 2^sh: the remainder is scaled back
Unscale[st \in DivState, sh \in Nat] == [q |-> BTrim[st.q], r |-> BShr[st.r, sh]]

\* n / d for n >= d, scaling both by 2^sh
DivScaled[n \in BigNat, d \in BigNat, sh \in Nat] ==
    Unscale[DivNormal[BShl[n, sh], BShl[d, sh]], sh]

\* quotient q and remainder r of n by d # 0
BDivMod[n \in BigNat, d \in BigNat] ==
    IF BCmp[n, d] < 0 THEN [q |-> <<>>, r |-> n]
    ELSE DivScaled[n, d, LimbBits - IntBitLen[d[Len(d)]]]

(***************************************************************************)
(* Python floats.  A non-zero float is (-1)^s * m * 2^e with a significand *)
(* of exactly SigBits bits; zero has the empty significand.  Every         *)
(* operation computes the exact result and rounds it once, to nearest with *)
(* ties to even.  Infinities, NaNs and subnormals are not represented:     *)
(* InRange says that a value is zero or a normal binary64 number.          *)
(***************************************************************************)
SigBits == 53

MinExp == -1074

MaxExp == 971

Float == [s : {0, 1}, m : BigNat, e : Int]

FZero == [s |-> 0, m |-> <<>>, e |-> 0]

FIsZero(x) == x.m = <<>>

InRange(x) == FIsZero(x) \/ (x.e >= MinExp /\ x.e <= MaxExp)

\* m0 * 2^e or its successor, as a float; m0 has SigBits bits
RoundUp[sgn \in {0, 1}, m0 \in BigNat, up \in BOOLEAN, e \in Int] ==
    IF ~up THEN [s |-> sgn, m |-> m0, e |-> e]
    ELSE IF BBitLen[BAdd[m0, <<1>>]] > SigBits
    THEN [s |-> sgn, m |-> BShr[BAdd[m0, <<1>>], 1], e |-> e + 1]
    ELSE [s |-> sgn, m |-> BAdd[m0, <<1>>], e |-> e]

\* n * 2^e with the low drop > 0 bits of n rounded away
RoundBits[sgn \in {0, 1}, n \in BigNat, sticky \in BOOLEAN, e \in Int, drop \in Nat] ==
    RoundUp[sgn, BShr[n, drop],
            \/ BCmp[BSub[n, BShl[BShr[n, drop], drop]], BShl[<<1>>, drop - 1]] > 0
            \/ /\ BCmp[BSub[n, BShl[BShr[n, drop], drop]], BShl[<<1>>, drop - 1]] = 0
               /\ (sticky \/ BIsOdd(BShr[n, drop])),
            e + drop]

\* n * 2^e, plus a positive amount below one unit of n when sticky, rounded
RoundNat[sgn \in {0, 1}, n \in BigNat, sticky \in BOOLEAN, e \in Int] ==
    IF n = <<>> THEN FZero
    ELSE IF BBitLen[n] <= SigBits
         THEN [s |-> sgn, m |-> BShl[n, SigBits - BBitLen[n]], e |-> e - (SigBits - BBitLen[n])]
         ELSE RoundBits[sgn, n, sticky, e, BBitLen[n] - SigBits]

\* (n / d) * 2^(e - k) rounded, with n already scaled by 2^k
RoundQuotient[sgn \in {0, 1}, qr \in QuotRem, e \in Int] ==
    RoundNat[sgn, qr.q, qr.r # <<>>, e]

\* (n / d) * 2^e rounded, for n # 0 and d # 0; the quotient gets SigBits + 2 bits or one more
RoundScaled[sgn \in {0, 1}, n \in BigNat, d \in BigNat, e \in Int, k \in Int] ==
    IF k >= 0 THEN RoundQuotient[sgn, BDivMod[BShl[n, k], d], e - k]
    ELSE RoundQuotient[sgn, BDivMod[n, BShl[d, -k]], e - k]

RoundRat[sgn \in {0, 1}, n \in BigNat, d \in BigNat, e \in Int] ==
    RoundScaled[sgn, n, d, e, (SigBits + 2) - (BBitLen[n] - BBitLen[d])]

FNeg[x \in Float] == IF FIsZero(x) THEN x ELSE [x EXCEPT !.s = 1 - x.s]

FMul[x \in Float, y \in Float] ==
    IF FIsZero(x) \/ FIsZero(y) THEN FZero
    ELSE RoundNat[(x.s + y.s) % 2, BMul[x.m, y.m], FALSE, x.e + y.e]

\* x / y for y # 0 (a zero divisor raises ZeroDivisionError, see AssignQuotient)
FDiv[x \in Float, y \in Float] ==
    IF FIsZero(x) THEN FZero
    ELSE RoundRat[(x.s + y.s) % 2, x.m, y.m, x.e - y.e]

\* (-1)^sa * a * 2^e + (-1)^sb * b * 2^e rounded
AddAligned[sa \in {0, 1}, a \in BigNat, sb \in {0, 1}, b \in BigNat, e \in Int] ==
    IF sa = sb THEN RoundNat[sa, BAdd[a, b], FALSE, e]
    ELSE IF BCmp[a, b] = 0 THEN FZero
    ELSE IF BCmp[a, b] > 0 THEN RoundNat[sa, BSub[a, b], FALSE, e]
    ELSE RoundNat[sb, BSub[b, a], FALSE, e]

FAdd[x \in Float, y \in Float] ==
    IF FIsZero(x) THEN y
    ELSE IF FIsZero(y) THEN x
    ELSE AddAligned[x.s, BShl[x.m, x.e - MinOf(x.e, y.e)],
                    y.s, BShl[y.m, y.e - MinOf(x.e, y.e)], MinOf(x.e, y.e)]

FSub[x \in Float, y \in Float] == FAdd[x, FNeg[y]]

FSign(x) == IF FIsZero(x) THEN 0 ELSE IF x.s = 0 THEN 1 ELSE -1

\* -1, 0 or 1 as |x| < |y|, |x| = |y| or |x| > |y|, for non-zero x and y
FCmpAbs(x, y) ==
    IF x.e > y.e THEN 1 ELSE IF x.e < y.e THEN -1 ELSE BCmp[x.m, y.m]

\* -1, 0 or 1 as x < y, x = y or x > y
FCmp[x \in Float, y \in Float] ==
    IF FSign(x) # FSign(y) THEN (IF FSign(x) > FSign(y) THEN 1 ELSE -1)
    ELSE IF FSign(x) = 0 THEN 0
    ELSE FSign(x) * FCmpAbs(x, y)

FLt(x, y) == FCmp[x, y] < 0

FLe(x, y) == FCmp[x, y] <= 0

\* a Python int (a natural number here) converted to float
IntToF[n \in BigNat] == RoundNat[0, n, FALSE, 0]

\* a decimal literal of the source text: the digits d (an integer) times 10^x
Literal == [d : Seq(0..9), x : Int]

\* the float a decimal literal denotes: its value correctly rounded
ParseFloat[lit \in Literal] ==
    IF BFromDigits[lit.d] = <<>> THEN FZero
    ELSE IF lit.x >= 0
         THEN RoundNat[0, BMul[BFromDigits[lit.d], BPow10[lit.x]], FALSE, 0]
         ELSE RoundRat[0, BFromDigits[lit.d], BPow10[-lit.x], 0]

(***************************************************************************)
(* str.format with a "g" presentation type: the value rounded to p         *)
(* significant decimal digits (ties to even on the exact binary value),    *)
(* in scientific notation when the decimal exponent is below -4 or at      *)
(* least p, trailing zeros removed, padded to the field width.  Text is a  *)
(* sequence of one-character strings.                                      *)
(***************************************************************************)
DigitChar(d) == <<"0", "1", "2", "3", "4", "5", "6", "7", "8", "9">>[d + 1]

\* the last n decimal digits of k, most significant first
DigitsOf[k \in Nat, n \in Nat] == [i \in 1..n |-> DigitChar((k \div 10^(n - i)) % 10)]

\* the decimal digits of k < 1000 without leading zeros
NatChars[k \in Nat] ==
    IF k < 10 THEN DigitsOf[k, 1] ELSE IF k < 100 THEN DigitsOf[k, 2] ELSE DigitsOf[k, 3]

\* cs without its trailing "0"s
StripZeros[cs \in Seq(STRING)] ==
    LET nz == {i \in 1..Len(cs) : cs[i] # "0"}
    IN  IF nz = {} THEN <<>> ELSE SubSeq(cs, 1, CHOOSE m \in nz : \A k \in nz : k <= m)

\* a positive rational n / d
Ratio == [n : BigNat, d : BigNat]

\* p significant decimal digits k and the decimal exponent X of the first one
Rounded == [k : Nat, X : Int]

\* numerator and denominator of |x| * 10^(-k), for x # 0
Scaled[x \in Float, k \in Int] ==
    [n |-> BMul[IF x.e >= 0 THEN BShl[x.m, x.e] ELSE x.m, BPow10[MaxOf(0, -k)]],
     d |-> BMul[IF x.e >= 0 THEN <<1>> ELSE BShl[<<1>>, -x.e], BPow10[MaxOf(0, k)]]]

RatGe1[sc \in Ratio] == BCmp[sc.n, sc.d] >= 0

\* |x| >= 10^k
GePow10[x \in Float, k \in Int] == RatGe1[Scaled[x, k]]

\* floor(log10 |x|) for x # 0, given the estimate g from the binary exponent
Log10Near[x \in Float, g \in Int] ==
    IF ~GePow10[x, g] THEN g - 1
    ELSE IF GePow10[x, g + 1] THEN g + 1
    ELSE g

Log10Floor[x \in Float] == Log10Near[x, ((x.e + SigBits - 1) * 30103) \div 100000]

\* the quotient qr.q rounded to nearest, ties to even, as p digits and the exponent X
RoundDigits[qr \in QuotRem, d \in BigNat, p \in Nat, X \in Int] ==
    LET c == BCmp[BMulSmall[qr.r, 2, 0], d]
        k == BToInt[qr.q] + (IF c > 0 \/ (c = 0 /\ BIsOdd(qr.q)) THEN 1 ELSE 0)
    IN  IF k = 10^p THEN [k |-> 10^(p - 1), X |-> X + 1] ELSE [k |-> k, X |-> X]

DecimalOf[sc \in Ratio, p \in Nat, X \in Int] ==
    RoundDigits[BDivMod[sc.n, sc.d], sc.d, p, X]

DecimalAt[x \in Float, p \in Nat, X \in Int] == DecimalOf[Scaled[x, X - p + 1], p, X]

\* |x| = k * 10^(X-p+1) to p significant digits: [k, X], for x # 0
Decimal[x \in Float, p \in Nat] == DecimalAt[x, p, Log10Floor[x]]

WithPoint(int, frac) == IF frac = <<>> THEN int ELSE int \o <<".">> \o frac

Scientific[dec \in Rounded, p \in Nat] ==
    WithPoint(DigitsOf[dec.k \div 10^(p - 1), 1], StripZeros[DigitsOf[dec.k, p - 1]])
    \o <<"e", IF dec.X < 0 THEN "-" ELSE "+">>
    \o (IF dec.X > -10 /\ dec.X < 10 THEN <<"0">> ELSE <<>>)
    \o NatChars[IF dec.X < 0 THEN -dec.X ELSE dec.X]

Fixed[dec \in Rounded, p \in Nat] ==
    IF dec.X >= 0
    THEN WithPoint(DigitsOf[dec.k \div 10^(p - 1 - dec.X), dec.X + 1],
                   StripZeros[DigitsOf[dec.k, p - 1 - dec.X]])
    ELSE WithPoint(<<"0">>, [i \in 1..(-dec.X - 1) |-> "0"] \o StripZeros[DigitsOf[dec.k, p]])

Digits[dec \in Rounded, p \in Nat] ==
    IF dec.X < -4 \/ dec.X >= p THEN Scientific[dec, p] ELSE Fixed[dec, p]

GeneralChars[x \in Float, p \in Nat] ==
    IF FIsZero(x) THEN <<"0">>
    ELSE (IF x.s = 1 THEN <<"-">> ELSE <<>>) \o Digits[Decimal[x, p], p]

Pad[cs \in Seq(STRING), width \in Nat, left \in BOOLEAN] ==
    IF Len(cs) >= width THEN cs
    ELSE IF left THEN cs \o [i \in 1..(width - Len(cs)) |-> " "]
    ELSE [i \in 1..(width - Len(cs)) |-> " "] \o cs

\* "{:<width>.<p>g}".format(x), left-aligned with the "<" flag
FormatG[x \in Float, p \in Nat, width \in Nat, left \in BOOLEAN] ==
    Pad[GeneralChars[x, p], width, left]

(***************************************************************************)
(* The notebook.  Its state is the kernel's namespace and, per code cell,  *)
(* the output area.  A cell is a list of statements executed in order; a   *)
(* statement that raises ends the cell and leaves a traceback in its       *)
(* output area.                                                            *)
(***************************************************************************)
VARIABLES
    inp,              \* the constants written in the cells (decimal literals, ints)
    ns,               \* the namespace: name -> value, for the names bound so far
    outputs,          \* per code cell, the lines of its output area
    cell,             \* the code cell being executed or executed last, 0 before any
    stmt,             \* the next statement of that cell, 0 when the kernel is idle
    execution_count,  \* how many cell executions the kernel has started
    err,              \* how the latest cell execution ended so far
    before            \* the namespace when the latest cell execution started

vars == <<inp, ns, outputs, cell, stmt, execution_count, err, before>>

Cells == 1..7

Lit(ds, x) == [d |-> ds, x |-> x]

\* the constants as the notebook writes them
NotebookInputs ==
    [mCO2_in    |-> Lit(<<3, 4, 5>>, 8),      \* 34.5e9
     nCO2_accum |-> Lit(<<2, 4>>, -7),        \* 2.4e-6
     mwAir      |-> Lit(<<2, 8, 9, 7>>, -2),  \* 28.97
     mwCO2      |-> Lit(<<4, 4, 0, 1>>, -2),  \* 44.01
     R          |-> 6371000,
     g          |-> Lit(<<9, 8, 1>>, -2),     \* 9.81
     P          |-> 101325]

\* numpy.pi: the float nearest to pi, 3.141592653589793
PiValue == ParseFloat[Lit(<<3, 1, 4, 1, 5, 9, 2, 6, 5, 3, 5, 8, 9, 7, 9, 3>>, -15)]

\* a Python int object
PyInt(k) == [int |-> BFromInt[k]]

Defined(name) == name \in DOMAIN ns

Bind(name, value) ==
    [n \in (DOMAIN ns) \cup {name} |-> IF n = name THEN value ELSE ns[n]]

\* the first name of the sequence reads that is not bound, if any
RECURSIVE FirstUndefined(_, _)
FirstUndefined(reads, i) ==
    IF i > Len(reads) THEN ""
    ELSE IF ~Defined(reads[i]) THEN reads[i]
    ELSE FirstUndefined(reads, i + 1)

AllDefined(reads) == FirstUndefined(reads, 1) = ""

Idle == stmt = 0

At(c, i) == cell = c /\ stmt = i

\* the statement completed: on to the next one, or the cell is finished
Advance(last) ==
    /\ stmt' = IF last THEN 0 ELSE stmt + 1
    /\ UNCHANGED <<inp, cell, execution_count, err, before>>

\* the statement raised: the cell ends and shows the traceback
Raise(ename, what) ==
    /\ err' = ename
    /\ outputs' = [outputs EXCEPT ![cell] =
                      Append(@, [kind |-> "error", head |-> ename, value |-> <<>>, tail |-> what])]
    /\ stmt' = 0
    /\ UNCHANGED <<inp, ns, cell, execution_count, before>>

\* name = <expression reading the names reads, with value value>
Assign(c, i, last, reads, name, value) ==
    /\ At(c, i)
    /\ IF AllDefined(reads)
       THEN /\ ns' = Bind(name, value)
            /\ UNCHANGED outputs
            /\ Advance(last)
       ELSE Raise("NameError", FirstUndefined(reads, 1))

\* name = num / den
AssignQuotient(c, i, last, reads, name, num, den) ==
    /\ At(c, i)
    /\ IF ~AllDefined(reads) THEN Raise("NameError", FirstUndefined(reads, 1))
       ELSE IF FIsZero(den) THEN Raise("ZeroDivisionError", "float division by zero")
       ELSE /\ ns' = Bind(name, FDiv[num, den])
            /\ UNCHANGED outputs
            /\ Advance(last)

\* print(head + format(ns[name]) + tail)
Show(c, i, last, name, head, p, width, left, tail) ==
    /\ At(c, i)
    /\ IF Defined(name)
       THEN /\ outputs' = [outputs EXCEPT ![c] =
                              Append(@, [kind |-> "stream", head |-> head,
                                         value |-> FormatG[ns[name], p, width, left],
                                         tail |-> tail])]
            /\ UNCHANGED ns
            /\ Advance(last)
       ELSE Raise("NameError", name)

-----------------------------------------------------------------------------
(* cell 1 *)
MatplotlibInline ==
    /\ At(1, 1)
    /\ UNCHANGED <<ns, outputs>>
    /\ Advance(FALSE)

\* import numpy: the module is bound, its names are not
ImportNumpy_Qualified == Assign(1, 2, TRUE, <<>>, "numpy", PyInt(0))

ImportNumpy == Assign(1, 2, TRUE, <<>>, "pi", PiValue)

(* cell 2 *)
\* the inflow set only when the name is not bound yet
Assign_mCO2_in_Once ==
    IF Defined("mCO2_in")
    THEN At(2, 1) /\ UNCHANGED <<ns, outputs>> /\ Advance(FALSE)
    ELSE Assign(2, 1, FALSE, <<>>, "mCO2_in", ParseFloat[inp.mCO2_in])

Assign_mCO2_in == Assign(2, 1, FALSE, <<>>, "mCO2_in", ParseFloat[inp.mCO2_in])

Convert_mCO2_in ==
    Assign(2, 2, FALSE, <<"mCO2_in">>, "mCO2_in", FMul[ns["mCO2_in"], IntToF[BFromInt[1000]]])

Print_mCO2_in == Show(2, 3, TRUE, "mCO2_in", "Global CO2 emissions = ", 3, 8, FALSE, " kg/yr")

(* cell 3 *)
Assign_nCO2_accum == Assign(3, 1, FALSE, <<>>, "nCO2_accum", ParseFloat[inp.nCO2_accum])

Assign_mwAir == Assign(3, 2, FALSE, <<>>, "mwAir", ParseFloat[inp.mwAir])

Assign_mwCO2 == Assign(3, 3, FALSE, <<>>, "mwCO2", ParseFloat[inp.mwCO2])

\* the molar masses exchanged
Compute_wCO2_accum_Inverse ==
    AssignQuotient(3, 4, FALSE, <<"nCO2_accum", "mwCO2", "mwAir">>, "wCO2_accum",
                   FMul[ns["nCO2_accum"], ns["mwAir"]], ns["mwCO2"])

Compute_wCO2_accum ==
    AssignQuotient(3, 4, FALSE, <<"nCO2_accum", "mwCO2", "mwAir">>, "wCO2_accum",
                   FMul[ns["nCO2_accum"], ns["mwCO2"]], ns["mwAir"])

Print_wCO2_accum ==
    Show(3, 5, TRUE, "wCO2_accum", "Accumulation Rate of CO2 = ", 3, 8, FALSE, " kg CO2/kg air")

(* cell 4 *)
Assign_R == Assign(4, 1, FALSE, <<>>, "R", PyInt(inp.R))

\* the radius doubled instead of squared
Compute_A_Twice ==
    Assign(4, 2, FALSE, <<"pi", "R">>, "A",
           FMul[FMul[IntToF[BFromInt[4]], ns["pi"]], IntToF[BMulSmall[ns["R"].int, 2, 0]]])

Compute_A ==
    Assign(4, 2, FALSE, <<"pi", "R">>, "A",
           FMul[FMul[IntToF[BFromInt[4]], ns["pi"]], IntToF[BMul[ns["R"].int, ns["R"].int]]])

Assign_g == Assign(4, 3, FALSE, <<>>, "g", ParseFloat[inp.g])

Assign_P == Assign(4, 4, FALSE, <<>>, "P", PyInt(inp.P))

Compute_mAir ==
    AssignQuotient(4, 5, FALSE, <<"A", "P", "g">>, "mAir",
                   FMul[ns["A"], IntToF[ns["P"].int]], ns["g"])

Print_mAir ==
    Show(4, 6, TRUE, "mAir", "Estimated mass of the atmosphere = ", 3, 8, FALSE, " kg")

(* cell 5 *)
\* the molar mass of air taken for the mass of air
Compute_mCO2_accum_mwAir ==
    Assign(5, 1, FALSE, <<"wCO2_accum", "mwAir">>, "mCO2_accum",
           FMul[ns["wCO2_accum"], ns["mwAir"]])

Compute_mCO2_accum ==
    Assign(5, 1, FALSE, <<"wCO2_accum", "mAir">>, "mCO2_accum",
           FMul[ns["wCO2_accum"], ns["mAir"]])

Print_mCO2_accum == Show(5, 2, TRUE, "mCO2_accum", "Change in CO2 = ", 3, 8, FALSE, " kg CO2/year")

(* cell 6 *)
\* the balance with the wrong sign
Compute_mCO2_out_Plus ==
    Assign(6, 1, FALSE, <<"mCO2_in", "mCO2_accum">>, "mCO2_out",
           FAdd[ns["mCO2_in"], ns["mCO2_accum"]])

\* the balance written back into the inflow
Compute_mCO2_out_InPlace ==
    Assign(6, 1, FALSE, <<"mCO2_in", "mCO2_accum">>, "mCO2_in",
           FSub[ns["mCO2_in"], ns["mCO2_accum"]])

Compute_mCO2_out ==
    Assign(6, 1, FALSE, <<"mCO2_in", "mCO2_accum">>, "mCO2_out",
           FSub[ns["mCO2_in"], ns["mCO2_accum"]])

\* the outflow line showing the inflow
Print_mCO2_out_Inflow ==
    Show(6, 2, TRUE, "mCO2_in", "Global CO2 outflow = ", 3, 8, FALSE, " kg CO2/yr")

Print_mCO2_out == Show(6, 2, TRUE, "mCO2_out", "Global CO2 outflow = ", 3, 8, FALSE, " kg CO2/yr")

(* cell 7 *)
\* the fraction that leaves instead of the fraction retained
Compute_fCO2_Outflow ==
    AssignQuotient(7, 1, FALSE, <<"mCO2_out", "mCO2_in">>, "fCO2",
                   ns["mCO2_out"], ns["mCO2_in"])

\* the quotient inverted
Compute_fCO2_Inverse ==
    AssignQuotient(7, 1, FALSE, <<"mCO2_accum", "mCO2_in">>, "fCO2",
                   ns["mCO2_in"], ns["mCO2_accum"])

Compute_fCO2 ==
    AssignQuotient(7, 1, FALSE, <<"mCO2_accum", "mCO2_in">>, "fCO2",
                   ns["mCO2_accum"], ns["mCO2_in"])

Print_fCO2 ==
    Show(7, 2, TRUE, "fCO2", "Fraction of CO2 retained in the atmosphere = ", 2, 0, TRUE, " ")

Statement ==
    \/ MatplotlibInline \/ ImportNumpy
    \/ Assign_mCO2_in \/ Convert_mCO2_in \/ Print_mCO2_in
    \/ Assign_nCO2_accum \/ Assign_mwAir \/ Assign_mwCO2 \/ Compute_wCO2_accum \/ Print_wCO2_accum
    \/ Assign_R \/ Compute_A \/ Assign_g \/ Assign_P \/ Compute_mAir \/ Print_mAir
    \/ Compute_mCO2_accum \/ Print_mCO2_accum
    \/ Compute_mCO2_out \/ Print_mCO2_out
    \/ Compute_fCO2 \/ Print_fCO2

\* the kernel starts executing cell c: its output area is cleared
Start(c) ==
    /\ Idle
    /\ cell' = c
    /\ stmt' = 1
    /\ execution_count' = execution_count + 1
    /\ outputs' = [outputs EXCEPT ![c] = <<>>]
    /\ err' = "none"
    /\ before' = ns
    /\ UNCHANGED <<inp, ns>>

-----------------------------------------------------------------------------
(***************************************************************************)
(* Spec: the top-to-bottom pass (the recorded execution counts are 1..7):  *)
(* the cells run in document order, and the run stops at a cell that       *)
(* raises.  The constants are drawn from positive alternatives that        *)
(* include the notebook's own.                                             *)
(***************************************************************************)
InputChoices ==
    [mCO2_in    : {NotebookInputs.mCO2_in, Lit(<<3, 4, 5>>, -1), Lit(<<3, 4, 5>>, 14)},
     nCO2_accum : {NotebookInputs.nCO2_accum, Lit(<<2, 4>>, -27), Lit(<<2, 4>>, -5)},
     mwAir      : {NotebookInputs.mwAir},
     mwCO2      : {NotebookInputs.mwCO2, Lit(<<1, 6, 0, 4>>, -2)},
     R          : {NotebookInputs.R, 3389500},
     g          : {NotebookInputs.g, Lit(<<3, 7, 1>>, -2)},
     P          : {NotebookInputs.P, 636}]

InitKernel(inputs) ==
    /\ inp \in inputs
    /\ ns = <<>>
    /\ outputs = [c \in Cells |-> <<>>]
    /\ cell = 0
    /\ stmt = 0
    /\ execution_count = 0
    /\ err = "none"
    /\ before = <<>>

Init == InitKernel(InputChoices)

RunNextCell ==
    /\ err = "none"
    /\ execution_count + 1 \in Cells
    /\ Start(execution_count + 1)

PassDone == Idle /\ (execution_count + 1 \notin Cells \/ err # "none")

Next == RunNextCell \/ Statement

Spec == Init /\ [][Next]_vars /\ WF_vars(Next)

(***************************************************************************)
(* SpecKernel: the notebook used interactively: any cell may be executed   *)
(* whenever the kernel is idle, at most MaxRuns times in all.              *)
(***************************************************************************)
MaxRuns == 7

InitNotebook == InitKernel({NotebookInputs})

RunCell == \E c \in Cells : execution_count < MaxRuns /\ Start(c)

NextKernel == RunCell \/ Statement

SpecKernel == InitNotebook /\ [][NextKernel]_vars

-----------------------------------------------------------------------------
(***************************************************************************)
(* Properties of the top-to-bottom pass.                                   *)
(***************************************************************************)
Positive(x) == FSign(x) > 0

\* x + y = z exactly, as real numbers, for positive floats
ExactSum(x, y, z) ==
    LET e == MinOf(x.e, MinOf(y.e, z.e))
    IN  BAdd[BShl[x.m, x.e - e], BShl[y.m, y.e - e]] = BShl[z.m, z.e - e]

\* the distance from x to the next float of larger magnitude
Ulp(x) == [s |-> 0, m |-> BShl[<<1>>, SigBits - 1], e |-> x.e - (SigBits - 1)]

Two == IntToF[BFromInt[2]]

\* C1 as stated: once the outflow step has run, mCO2_out is mCO2_in - mCO2_accum,
\* and whenever mCO2_accum > 0 the outflow is strictly less than the inflow.
C1_Stated ==
    Defined("mCO2_out") =>
        /\ ns["mCO2_out"] = FSub[ns["mCO2_in"], ns["mCO2_accum"]]
        /\ Positive(ns["mCO2_accum"]) => FLt(ns["mCO2_out"], ns["mCO2_in"])

\* C1 as amended: once the outflow step has run, mCO2_out is the float nearest to
\* mCO2_in - mCO2_accum; whenever mCO2_accum > 0 the outflow is at most the inflow,
\* and it equals the inflow only when the accumulation is at most half a unit in
\* the last place of the inflow.  For the notebook's constants the difference is
\* exact (accumulation = inflow - outflow) and the outflow is strictly less.
C1_Balance ==
    Defined("mCO2_out") =>
        /\ ns["mCO2_out"] = FSub[ns["mCO2_in"], ns["mCO2_accum"]]
        /\ Positive(ns["mCO2_accum"]) =>
              /\ FLe(ns["mCO2_out"], ns["mCO2_in"])
              /\ ns["mCO2_out"] = ns["mCO2_in"] =>
                     FLe(FMul[Two, ns["mCO2_accum"]], Ulp(ns["mCO2_in"]))
        /\ inp = NotebookInputs =>
              /\ ExactSum(ns["mCO2_out"], ns["mCO2_accum"], ns["mCO2_in"])
              /\ FLt(ns["mCO2_out"], ns["mCO2_in"])

\* the outflow step has run on a positive accumulation too small to change the inflow
C1_Absorbed ==
    /\ Defined("mCO2_out")
    /\ Positive(ns["mCO2_accum"])
    /\ ns["mCO2_out"] = ns["mCO2_in"]

One == IntToF[BFromInt[1]]

\* C2 as stated: for strictly positive inputs the retained fraction computed by
\* the final step lies strictly between 0 and 1.
C2_Stated ==
    Defined("fCO2") => Positive(ns["fCO2"]) /\ FLt(ns["fCO2"], One)

\* C2 as amended: for strictly positive inputs the retained fraction is strictly
\* positive, and it is below 1 exactly when the accumulation is below the inflow;
\* it lies strictly between 0 and 1 for the notebook's constants.
C2_Fraction ==
    Defined("fCO2") =>
        /\ ns["fCO2"] = FDiv[ns["mCO2_accum"], ns["mCO2_in"]]
        /\ Positive(ns["fCO2"])
        /\ FLt(ns["fCO2"], One) <=> FLt(ns["mCO2_accum"], ns["mCO2_in"])
        /\ inp = NotebookInputs => FLt(ns["fCO2"], One)

\* the final step has run with an accumulation above the inflow
C2_Above ==
    /\ Defined("fCO2")
    /\ FLt(ns["mCO2_in"], ns["mCO2_accum"])
    /\ FLt(One, ns["fCO2"])

\* the statement at position <<c, i>> has completed without raising
Completed(c, i) ==
    /\ err = "none"
    /\ \/ execution_count > c
       \/ execution_count = c /\ (Idle \/ stmt > i)

\* C3: after the pass mCO2_accum = (4*pi*R^2*P/g) * (nCO2_accum*mwCO2/mwAir), every
\* factor as the earlier steps leave it (floats, in the order the cells evaluate);
\* for the notebook's constants this shows as 1.92e+13 and the outflow as 1.53e+13.
C3_Accumulation ==
    (PassDone /\ err = "none") =>
        /\ ns["mCO2_accum"] =
              FMul[FDiv[FMul[ParseFloat[inp.nCO2_accum], ParseFloat[inp.mwCO2]],
                        ParseFloat[inp.mwAir]],
                   FDiv[FMul[FMul[FMul[IntToF[BFromInt[4]], PiValue],
                                  IntToF[BMul[BFromInt[inp.R], BFromInt[inp.R]]]],
                             IntToF[BFromInt[inp.P]]],
                        ParseFloat[inp.g]]]
        /\ ns["mCO2_accum"] = FMul[ns["mAir"], ns["wCO2_accum"]]
        /\ inp = NotebookInputs =>
              /\ FormatG[ns["mCO2_accum"], 3, 8, FALSE] = <<"1", ".", "9", "2", "e", "+", "1", "3">>
              /\ FormatG[ns["mCO2_out"], 3, 8, FALSE] = <<"1", ".", "5", "3", "e", "+", "1", "3">>

\* the pass has ended on the notebook's constants with accumulation and outflow computed
C3_Computed ==
    /\ PassDone
    /\ err = "none"
    /\ inp = NotebookInputs
    /\ Defined("mCO2_accum")
    /\ Defined("mCO2_out")

\* C4: with the notebook's constants the retained fraction is 0.56 to two
\* significant digits.
C4_Retained ==
    (inp = NotebookInputs /\ Defined("fCO2")) =>
        /\ FormatG[ns["fCO2"], 2, 0, TRUE] = <<"0", ".", "5", "6">>
        /\ FLe(ParseFloat[Lit(<<5, 5, 5>>, -3)], ns["fCO2"])
        /\ FLe(ns["fCO2"], ParseFloat[Lit(<<5, 6, 5>>, -3)])

C4_Computed == inp = NotebookInputs /\ Defined("fCO2") /\ Idle

\* C5: with nCO2_accum = 2.4e-6, mwCO2 = 44.01 and mwAir = 28.97 the mass-fraction
\* growth rate is 3.65e-06 to three significant digits.
C5_GrowthRate ==
    (/\ inp.nCO2_accum = NotebookInputs.nCO2_accum
     /\ inp.mwCO2 = NotebookInputs.mwCO2
     /\ inp.mwAir = NotebookInputs.mwAir
     /\ Defined("wCO2_accum")) =>
        /\ FormatG[ns["wCO2_accum"], 3, 8, FALSE] = <<"3", ".", "6", "5", "e", "-", "0", "6">>
        /\ FLe(ParseFloat[Lit(<<3, 6, 4, 5>>, -9)], ns["wCO2_accum"])
        /\ FLe(ns["wCO2_accum"], ParseFloat[Lit(<<3, 6, 5, 5>>, -9)])

C5_Computed ==
    /\ inp.nCO2_accum = NotebookInputs.nCO2_accum
    /\ inp.mwCO2 = NotebookInputs.mwCO2
    /\ Completed(3, 4)

\* C6: with R = 6371000, g = 9.81 and P = 101325 the atmospheric mass estimate
\* (4*pi*R^2)*P/g is 5.27e+18 to three significant digits.
C6_AtmosphericMass ==
    (/\ inp.R = NotebookInputs.R
     /\ inp.g = NotebookInputs.g
     /\ inp.P = NotebookInputs.P
     /\ Defined("mAir")) =>
        /\ FormatG[ns["mAir"], 3, 8, FALSE] = <<"5", ".", "2", "7", "e", "+", "1", "8">>
        /\ FLe(ParseFloat[Lit(<<5, 2, 6, 5>>, 15)], ns["mAir"])
        /\ FLe(ns["mAir"], ParseFloat[Lit(<<5, 2, 7, 5>>, 15)])

C6_Computed ==
    /\ inp.R = NotebookInputs.R
    /\ inp.g = NotebookInputs.g
    /\ inp.P = NotebookInputs.P
    /\ Completed(4, 5)

\* the quantities the notebook names
Quantities ==
    {"mCO2_in", "nCO2_accum", "mwAir", "mwCO2", "wCO2_accum", "R", "A", "g", "P",
     "mAir", "mCO2_accum", "mCO2_out", "fCO2"}

\* the derived quantities, in the order the pass computes and reports them
Derived == <<"mCO2_in", "wCO2_accum", "mAir", "mCO2_accum", "mCO2_out", "fCO2">>

Thousand == IntToF[BFromInt[1000]]

\* C7 as stated: in the pass, once a quantity has been assigned no later statement
\* assigns it again: its value never changes.
C7_Stated ==
    [][\A v \in Quantities : Defined(v) => ns'[v] = ns[v]]_vars

\* C7 as amended: in the pass every quantity other than mCO2_in is assigned once
\* and never changes afterwards; mCO2_in is assigned twice, by the two consecutive
\* statements of cell 2 (the value in tonnes, then that value times 1000), and
\* never changes after the second.
C7_AssignedOnce ==
    [][\A v \in Quantities :
          Defined(v) =>
              IF v = "mCO2_in" /\ At(2, 2)
              THEN ns'[v] = FMul[ParseFloat[inp.mCO2_in], Thousand] /\ ns[v] = ParseFloat[inp.mCO2_in]
              ELSE ns'[v] = ns[v]]_vars

\* the conversion has replaced the value of mCO2_in
C7_Converted ==
    /\ Completed(2, 2)
    /\ ns["mCO2_in"] # ParseFloat[inp.mCO2_in]
    /\ ns["mCO2_in"] = FMul[ParseFloat[inp.mCO2_in], Thousand]

Bit(b) == IF b THEN 1 ELSE 0

\* the number of statements and cell starts that can run next
EnabledCount ==
    Bit(ENABLED RunNextCell)
    + Bit(ENABLED MatplotlibInline) + Bit(ENABLED ImportNumpy)
    + Bit(ENABLED Assign_mCO2_in) + Bit(ENABLED Convert_mCO2_in) + Bit(ENABLED Print_mCO2_in)
    + Bit(ENABLED Assign_nCO2_accum) + Bit(ENABLED Assign_mwAir) + Bit(ENABLED Assign_mwCO2)
    + Bit(ENABLED Compute_wCO2_accum) + Bit(ENABLED Print_wCO2_accum)
    + Bit(ENABLED Assign_R) + Bit(ENABLED Compute_A) + Bit(ENABLED Assign_g)
    + Bit(ENABLED Assign_P) + Bit(ENABLED Compute_mAir) + Bit(ENABLED Print_mAir)
    + Bit(ENABLED Compute_mCO2_accum) + Bit(ENABLED Print_mCO2_accum)
    + Bit(ENABLED Compute_mCO2_out) + Bit(ENABLED Print_mCO2_out)
    + Bit(ENABLED Compute_fCO2) + Bit(ENABLED Print_fCO2)

AllDerived == \A k \in 1..Len(Derived) : Defined(Derived[k])

\* every float in the namespace is zero or a normal number: nothing has overflowed
\* to an infinity or underflowed
Finite == \A v \in DOMAIN ns : "m" \in DOMAIN ns[v] => InRange(ns[v])

\* no statement has raised, no value has left the range of the normal floats,
\* exactly one step can follow until the pass is done (none after), and the
\* divisors are non-zero
NoError ==
    /\ err = "none"
    /\ Finite
    /\ EnabledCount = IF PassDone THEN 0 ELSE 1
    /\ \A v \in {"mwAir", "g", "mCO2_in"} : Defined(v) => ~FIsZero(ns[v])

\* C8: the pass has one execution, every statement reads only names already
\* defined, no divisor is zero, and the pass terminates with the six derived
\* quantities defined.
C8_SinglePass == []NoError /\ <>(PassDone /\ err = "none" /\ AllDerived)

C8_Finished == PassDone /\ err = "none" /\ AllDerived /\ execution_count = 7

\* the display: the output areas in document order
Display == outputs[1] \o outputs[2] \o outputs[3] \o outputs[4] \o outputs[5] \o outputs[6] \o outputs[7]

\* the six lines of the recorded execution: text before the number, precision,
\* field width, "<" flag, text after the number, and the number as recorded
Recorded ==
    <<[head |-> "Global CO2 emissions = ", p |-> 3, width |-> 8, left |-> FALSE,
       tail |-> " kg/yr", value |-> <<"3", ".", "4", "5", "e", "+", "1", "3">>],
      [head |-> "Accumulation Rate of CO2 = ", p |-> 3, width |-> 8, left |-> FALSE,
       tail |-> " kg CO2/kg air", value |-> <<"3", ".", "6", "5", "e", "-", "0", "6">>],
      [head |-> "Estimated mass of the atmosphere = ", p |-> 3, width |-> 8, left |-> FALSE,
       tail |-> " kg", value |-> <<"5", ".", "2", "7", "e", "+", "1", "8">>],
      [head |-> "Change in CO2 = ", p |-> 3, width |-> 8, left |-> FALSE,
       tail |-> " kg CO2/year", value |-> <<"1", ".", "9", "2", "e", "+", "1", "3">>],
      [head |-> "Global CO2 outflow = ", p |-> 3, width |-> 8, left |-> FALSE,
       tail |-> " kg CO2/yr", value |-> <<"1", ".", "5", "3", "e", "+", "1", "3">>],
      [head |-> "Fraction of CO2 retained in the atmosphere = ", p |-> 2, width |-> 0,
       left |-> TRUE, tail |-> " ", value |-> <<"0", ".", "5", "6">>]>>

\* line k of the display reports quantity k with its present value
Reports(k) ==
    /\ Display[k].kind = "stream"
    /\ Display[k].head = Recorded[k].head
    /\ Display[k].tail = Recorded[k].tail
    /\ Defined(Derived[k])
    /\ Display[k].value =
          FormatG[ns[Derived[k]], Recorded[k].p, Recorded[k].width, Recorded[k].left]
    /\ inp = NotebookInputs => Display[k].value = Recorded[k].value

\* the display holds the lines of the first quantities, in order, each showing the
\* value its quantity has now; at the end of the pass it holds all six
InOrder ==
    /\ Len(Display) <= Len(Derived)
    /\ \A k \in 1..Len(Display) : Reports(k)
    /\ PassDone => Len(Display) = Len(Derived)

\* a line is appended to the display when its quantity is computed and no later one is
EmittedInTurn ==
    Display' # Display =>
        /\ Display' = Append(Display, Display'[Len(Display')])
        /\ Defined(Derived[Len(Display')])
        /\ Len(Display') = 1 => ns["mCO2_in"] # ParseFloat[inp.mCO2_in]
        /\ \A j \in (Len(Display') + 1)..Len(Derived) : ~Defined(Derived[j])

\* C9: the pass writes exactly six lines, in the fixed order of the derived
\* quantities; each is emitted after its quantity is computed and before any later
\* quantity is computed, and shows the value the quantity has at the end of the pass.
C9_Display == []InOrder /\ [][EmittedInTurn]_vars

C9_Shown == PassDone /\ Len(Display) = 6 /\ inp = NotebookInputs

-----------------------------------------------------------------------------
(***************************************************************************)
(* Properties of the notebook used interactively (SpecKernel).             *)
(***************************************************************************)
\* the namespace at the end of the top-to-bottom pass on the notebook's constants
PassValues ==
    LET in   == FMul[ParseFloat[NotebookInputs.mCO2_in], Thousand]
        w    == FDiv[FMul[ParseFloat[NotebookInputs.nCO2_accum], ParseFloat[NotebookInputs.mwCO2]],
                     ParseFloat[NotebookInputs.mwAir]]
        area == FMul[FMul[IntToF[BFromInt[4]], PiValue],
                     IntToF[BMul[BFromInt[NotebookInputs.R], BFromInt[NotebookInputs.R]]]]
        air  == FDiv[FMul[area, IntToF[BFromInt[NotebookInputs.P]]], ParseFloat[NotebookInputs.g]]
    IN  [pi         |-> PiValue,
         mCO2_in    |-> in,
         nCO2_accum |-> ParseFloat[NotebookInputs.nCO2_accum],
         mwAir      |-> ParseFloat[NotebookInputs.mwAir],
         mwCO2      |-> ParseFloat[NotebookInputs.mwCO2],
         wCO2_accum |-> w,
         R          |-> PyInt(NotebookInputs.R),
         A          |-> area,
         g          |-> ParseFloat[NotebookInputs.g],
         P          |-> PyInt(NotebookInputs.P),
         mAir       |-> air,
         mCO2_accum |-> FMul[w, air],
         mCO2_out   |-> FSub[in, FMul[w, air]],
         fCO2       |-> FDiv[FMul[w, air], in]]

\* the names a cell reads that other cells bind
Needs ==
    [c \in Cells |->
        CASE c = 4 -> {"pi"}
          [] c = 5 -> {"wCO2_accum", "mAir"}
          [] c = 6 -> {"mCO2_in", "mCO2_accum"}
          [] c = 7 -> {"mCO2_accum", "mCO2_in"}
          [] OTHER -> {}]

\* between cell executions every defined name has the value the pass gives it
SameAsPass == \A v \in DOMAIN ns : ns[v] = PassValues[v]

\* C10 as stated: after any sequence of cell executions every defined variable has
\* the value it has after the pass, and a cell executed before a cell it depends on
\* fails with an undefined name without changing any variable.
C10_Stated ==
    (Idle /\ cell # 0) =>
        /\ SameAsPass
        /\ ~(Needs[cell] \subseteq DOMAIN before) => (err = "NameError" /\ ns = before)

\* C10 as amended: after any sequence of cell executions every defined variable has
\* the value it has after the pass, and a cell executed before a cell it depends on
\* fails with an undefined name; it changes no variable, except that cell 4
\* executed before cell 1 binds R (to the value the pass gives it) before it fails
\* on pi.
C10_Reexecution ==
    (Idle /\ cell # 0) =>
        /\ SameAsPass
        /\ ~(Needs[cell] \subseteq DOMAIN before) =>
              /\ err = "NameError"
              /\ IF cell = 4
                 THEN ns = [n \in (DOMAIN before) \cup {"R"} |->
                               IF n = "R" THEN PassValues["R"] ELSE before[n]]
                 ELSE ns = before

\* cell 4 has failed on pi after binding R
C10_PartialCell ==
    /\ Idle
    /\ cell = 4
    /\ err = "NameError"
    /\ "R" \in DOMAIN ns
    /\ "R" \notin DOMAIN before

=============================================================================
